---- MODULE Spec2Model ----
(***************************************************************************)
(* rep-helper-backend: the identity bridge (login / refresh / protect),    *)
(* the role and ownership checks of the controllers, and the account /     *)
(* republic / task store they act on.                                      *)
(*                                                                         *)
(* One action is one HTTP request, handled from the first middleware to    *)
(* the response; requests are taken one after the other.  The store is the *)
(* PostgreSQL database of the schema file; `wallet` is the set of session  *)
(* tokens the clients hold, from which the bearer token of a request is    *)
(* drawn; `resp` is the request just handled together with its response,   *)
(* until Deliver hands the response to the client.                         *)
(* Messages are the source's, written without diacritics.                  *)
(***************************************************************************)
EXTENDS Integers, FiniteSets, Sequences, TLC

\* ---------------------------------------------------------------- bounds
MaxAccounts == 2
MaxRepublics == 2
MaxTasks == 1
MaxResidents == 1
MaxTicks == 2
NumDraws == 2
MaxPasses == 2
MaxPending == 2

\* ------------------------------------------------------ program constants
ExpiresInSeconds == 3600
CodeLength == 6

Chars == <<"A","B","C","D","E","F","G","H","I","J","K","L","M","N","O","P","Q","R",
           "S","T","U","V","W","X","Y","Z","0","1","2","3","4","5","6","7","8","9">>

Roles == {"admin", "user", "resident"}
\* role VARCHAR(20) CHECK (...) DEFAULT 'user' is nullable: an INSERT that passes
\* an undefined role stores NULL.
NoRole == "null"

\* Roles a request is tried with: "resident" is told from "user" nowhere in
\* the handlers, so "user" stands for both.
RoleInputs == {"admin", "user"}

Uids == 1..MaxAccounts
\* The identities known to the provider (firebase uids).
Subjects == {"fb-a", "fb-b"}

\* The client devices; each stores one session token at a time.
Clients == {"web", "mobile"}
Rids == 1..MaxRepublics
Tids == 1..MaxTasks
Sids == 1..MaxResidents

VARIABLES accounts, republics, tasks, residents, pending, seq, wallet, now, resp

vars == <<accounts, republics, tasks, residents, pending, seq, wallet, now, resp>>

\* ------------------------------------------------------------ value shapes
\* status 'active' | 'inactive' | 'banned'; NoStatus is a NULL status, what
\* createUser stores when the body has none.
Statuses == {"active", "inactive", "banned"}

NoStatus == "null"

NoUser == [uid |-> 0, firebase_uid |-> "", role |-> NoRole,
           current_republic_id |-> 0, is_admin |-> FALSE, status |-> NoStatus]

NoRepublic == [id |-> 0, owner_id |-> 0, code |-> << >>]

NoTask == [id |-> 0, republic_id |-> 0, is_completed |-> FALSE]

NoResident == [id |-> 0, republic_id |-> 0, user_id |-> 0, entry_date |-> "",
               departed |-> FALSE]

NoToken == [id |-> 0, role |-> "none", iat |-> 0, exp |-> 0, sig |-> "none"]

NoFirebaseToken == [sub |-> "", validity |-> "missing"]

\* The identity tokens a client sends: a good one of each subject, an expired
\* one and a malformed one.
FirebaseTokens ==
    [sub : Subjects, validity : {"valid"}]
    \cup {[sub |-> "fb-a", validity |-> "expired"], [sub |-> "fb-a", validity |-> "invalid"]}

NoResp == [op |-> "none", status |-> 0, message |-> "", token |-> NoToken,
           issued |-> NoToken, user |-> NoUser, handled |-> FALSE,
           idp |-> "none", subject |-> "", target |-> 0, body |-> "none",
           named |-> 0, stream |-> << >>, retries |-> 0,
           failure |-> "none", env |-> "none"]

\* ------------------------------------------------------------- user.model
GetUserById(uid) ==
    IF uid \in DOMAIN accounts THEN accounts[uid] ELSE NoUser

GetUserByFirebaseUIDAny(firebaseUid) ==
    IF DOMAIN accounts = {} THEN NoUser
    ELSE accounts[CHOOSE u \in DOMAIN accounts : TRUE]

GetUserByFirebaseUID(firebaseUid) ==
    IF \E u \in DOMAIN accounts : accounts[u].firebase_uid = firebaseUid
    THEN accounts[CHOOSE u \in DOMAIN accounts : accounts[u].firebase_uid = firebaseUid]
    ELSE NoUser

\* ---------------------------------------------------------- republic.model
GetRepublicById(id) ==
    IF id \in DOMAIN republics THEN republics[id] ELSE NoRepublic

GetRepublicByCode(code) ==
    IF \E r \in DOMAIN republics : republics[r].code = code
    THEN republics[CHOOSE r \in DOMAIN republics : republics[r].code = code]
    ELSE NoRepublic

\* One pass of the loop of generateRepublicCode: CodeLength characters, the
\* i-th being chars.charAt(Math.floor(Math.random() * chars.length)); draw[i]
\* is the index the i-th random number falls on.
CodeOfShort(draw) == [i \in 1..(CodeLength - 1) |-> Chars[draw[i] + 1]]

CodeOf(draw) == [i \in 1..CodeLength |-> Chars[draw[i] + 1]]

\* The outcomes of Math.random() the model draws from: NumDraws of the
\* Len(Chars)^CodeLength ones.
DrawOf(d) == [i \in 1..CodeLength |-> (7 * d * i) % Len(Chars)]

Draws == {DrawOf(d) : d \in 1..NumDraws}

Codes == {CodeOf(draw) : draw \in Draws}

\* -------------------------------------------------------------- task.model
TaskModelGetTaskByIdNoRow(id) == NoTask

TaskModelGetTaskById(id) == IF id \in DOMAIN tasks THEN tasks[id] ELSE NoTask

\* uid UUID PRIMARY KEY DEFAULT gen_random_uuid(): a key never used before.
\* seq holds the last key handed out for each table, so the key of a deleted
\* row is not given to a later row.
NextKey(table) == seq[table] + 1

\* -------------------------------------------------------- auth.middleware
RoleOrDefault(role) == IF role = NoRole THEN "user" ELSE role

SignTokenNoRole(id, role) ==
    [id |-> id, role |-> "none", iat |-> now, exp |-> now + ExpiresInSeconds,
     sig |-> "good"]

SignToken(id, role) ==
    [id |-> id, role |-> role, iat |-> now, exp |-> now + ExpiresInSeconds,
     sig |-> "good"]

\* jwt.verify(token, secret, {ignoreExpiration}): the signature is checked
\* first, then the expiry (clockTimestamp >= exp).
JwtVerifyAlwaysExp(t, ignoreExpiration) ==
    IF t.sig # "good" THEN "JsonWebTokenError"
    ELSE IF now >= t.exp THEN "TokenExpiredError"
    ELSE "ok"

JwtVerifyNeverExp(t, ignoreExpiration) ==
    IF t.sig # "good" THEN "JsonWebTokenError" ELSE "ok"

JwtVerifySingleSession(t, ignoreExpiration) ==
    IF t.sig # "good" THEN "JsonWebTokenError"
    ELSE IF \E t2 \in wallet : t2.id = t.id /\ t2.iat > t.iat THEN "JsonWebTokenError"
    ELSE IF ~ignoreExpiration /\ now >= t.exp THEN "TokenExpiredError"
    ELSE "ok"

JwtVerify(t, ignoreExpiration) ==
    IF t.sig # "good" THEN "JsonWebTokenError"
    ELSE IF ~ignoreExpiration /\ now >= t.exp THEN "TokenExpiredError"
    ELSE "ok"

\* admin.auth().verifyIdToken(firebaseToken): the subject of the token, or an
\* error whose code tells an expired token from the other failures.
VerifyIdToken(ft, up) ==
    IF ~up THEN [ok |-> FALSE, uid |-> "", code |-> "app/network-error", idp |-> "unavailable"]
    ELSE IF ft.validity = "expired"
         THEN [ok |-> FALSE, uid |-> "", code |-> "auth/id-token-expired", idp |-> "expired"]
    ELSE IF ft.validity = "invalid"
         THEN [ok |-> FALSE, uid |-> "", code |-> "auth/argument-error", idp |-> "invalid"]
    ELSE [ok |-> TRUE, uid |-> ft.sub, code |-> "", idp |-> "ok"]

Rejected(status, message) ==
    [ok |-> FALSE, status |-> status, message |-> message, user |-> NoUser]

ProtectTrustToken(t) ==
    IF t = NoToken THEN Rejected(401, "Autenticacao necessaria")
    ELSE IF JwtVerify(t, FALSE) = "TokenExpiredError" THEN Rejected(401, "Token expirado")
    ELSE IF JwtVerify(t, FALSE) = "JsonWebTokenError" THEN Rejected(401, "Token invalido")
    ELSE [ok |-> TRUE, status |-> 200, message |-> "",
          user |-> [uid |-> t.id, firebase_uid |-> "", role |-> t.role,
                    current_republic_id |-> 0, is_admin |-> FALSE,
                    status |-> NoStatus]]

ProtectRoleFromToken(t) ==
    IF t = NoToken THEN Rejected(401, "Autenticacao necessaria")
    ELSE IF JwtVerify(t, FALSE) = "TokenExpiredError" THEN Rejected(401, "Token expirado")
    ELSE IF JwtVerify(t, FALSE) = "JsonWebTokenError" THEN Rejected(401, "Token invalido")
    ELSE IF GetUserById(t.id) = NoUser THEN Rejected(401, "Usuario nao encontrado")
    ELSE [ok |-> TRUE, status |-> 200, message |-> "",
          user |-> [GetUserById(t.id) EXCEPT !.role = t.role]]

ProtectActiveOnly(t) ==
    IF t = NoToken THEN Rejected(401, "Autenticacao necessaria")
    ELSE IF JwtVerify(t, FALSE) = "TokenExpiredError" THEN Rejected(401, "Token expirado")
    ELSE IF JwtVerify(t, FALSE) = "JsonWebTokenError" THEN Rejected(401, "Token invalido")
    ELSE IF GetUserById(t.id) = NoUser THEN Rejected(401, "Usuario nao encontrado")
    ELSE IF GetUserById(t.id).status \in {"inactive", "banned"}
         THEN Rejected(403, "Conta inativa")
    ELSE [ok |-> TRUE, status |-> 200, message |-> "", user |-> GetUserById(t.id)]

Protect(t) ==
    IF t = NoToken THEN Rejected(401, "Autenticacao necessaria")
    ELSE IF JwtVerify(t, FALSE) = "TokenExpiredError" THEN Rejected(401, "Token expirado")
    ELSE IF JwtVerify(t, FALSE) = "JsonWebTokenError" THEN Rejected(401, "Token invalido")
    ELSE IF GetUserById(t.id) = NoUser THEN Rejected(401, "Usuario nao encontrado")
    ELSE [ok |-> TRUE, status |-> 200, message |-> "", user |-> GetUserById(t.id)]

RestrictToAnyRole(roles, user) == user # NoUser

RestrictTo(roles, user) == user # NoUser /\ user.role \in roles

\* The bearer tokens a client can send: one it was given, one it was given
\* with its payload or signature altered, or none.
Forged(t) == [t EXCEPT !.sig = "bad"]

Presentable == wallet \cup {Forged(t) : t \in wallet} \cup {NoToken}

\* What the clients hold after a response that carries token t: they keep t,
\* dropping a token they held when there is no room for one more, or they
\* let t go.
Keep(t) ==
    IF Cardinality(wallet \cup {t}) <= Cardinality(Clients)
    THEN {wallet, wallet \cup {t}}
    ELSE {wallet} \cup {(wallet \ {d}) \cup {t} : d \in wallet}

\* ------------------------------------------- errorHandlers (globalErrorHandler)
\* process.env.NODE_ENV, read each time an error is handled.
NodeEnvs == {"development", "production"}

\* Errors that are not AppErrors: no statusCode, no isOperational. The query
\* could not reach the store, or the store refused the statement.
StoreError ==
    [kind |-> "store", statusCode |-> 0, isOperational |-> FALSE,
     message |-> "connect ECONNREFUSED"]

ForeignKeyError ==
    [kind |-> "constraint", statusCode |-> 0, isOperational |-> FALSE,
     message |-> "violates foreign key constraint fk_republic_owner"]

\* The handler without its production branch.
GlobalErrorHandlerDetailed(req, err, env) ==
    [req EXCEPT !.status = IF err.statusCode = 0 THEN 500 ELSE err.statusCode,
                !.message = err.message,
                !.failure = err.kind, !.env = env]

\* resp.failure and resp.env record which error was handled and under which
\* NODE_ENV; in development the answer also carries the error and its stack.
GlobalErrorHandler(req, err, env) ==
    LET statusCode == IF err.statusCode = 0 THEN 500 ELSE err.statusCode
    IN
    IF env = "development"
    THEN [req EXCEPT !.status = statusCode, !.message = err.message,
                     !.failure = err.kind, !.env = env]
    ELSE IF err.isOperational
    THEN [req EXCEPT !.status = statusCode, !.message = err.message,
                     !.failure = err.kind, !.env = env]
    ELSE [req EXCEPT !.status = 500, !.message = "Something went wrong!",
                     !.failure = err.kind, !.env = env]

\* The answer of protect to a request it stops.
Stopped(op, t, g) ==
    [NoResp EXCEPT !.op = op, !.status = g.status, !.message = g.message, !.token = t]

\* The request protect hands to the next middleware: req.user = currentUser.
Passed(op, t, g) ==
    [NoResp EXCEPT !.op = op, !.token = t, !.user = g.user, !.handled = TRUE]

Idle == resp = NoResp

Init ==
    /\ accounts = << >>
    /\ republics = << >>
    /\ tasks = << >>
    /\ residents = << >>
    /\ pending = {}
    /\ seq = [uid |-> 0, rid |-> 0, tid |-> 0, sid |-> 0]
    /\ wallet = {}
    /\ now = 0
    /\ resp = NoResp

\* ------------------------------------------------------------------ clock
Tick ==
    /\ Idle
    /\ now < MaxTicks * (ExpiresInSeconds \div 2)
    /\ now' = now + (ExpiresInSeconds \div 2)
    /\ UNCHANGED <<accounts, republics, tasks, seq, wallet, resp, residents, pending>>

\* The response reaches the client, which keeps the token it carries.
Deliver ==
    /\ ~Idle
    /\ wallet' \in IF resp.issued # NoToken THEN Keep(resp.issued) ELSE {wallet}
    /\ resp' = NoResp
    /\ UNCHANGED <<accounts, republics, tasks, seq, now, residents, pending>>

\* ------------------------------------------------- POST /users (createUser)
CreateUserWithStatus(firebase_uid, role, current_republic_id, is_admin, status) ==
    LET uid == NextKey("uid")
        newUser == [uid |-> uid, firebase_uid |-> firebase_uid, role |-> role,
                    current_republic_id |-> current_republic_id, is_admin |-> is_admin,
                    status |-> status]
        token == SignToken(uid, RoleOrDefault(role))
        req == [NoResp EXCEPT !.op = "createUser", !.subject = firebase_uid]
    IN
    /\ Idle
    /\ IF GetUserByFirebaseUID(firebase_uid) # NoUser
       THEN /\ resp' = [req EXCEPT !.status = 409, !.message = "Firebase UID already exists"]
            /\ UNCHANGED <<accounts, seq>>
       ELSE IF current_republic_id # 0 /\ current_republic_id \notin DOMAIN republics
       THEN /\ resp' = [req EXCEPT !.status = 400, !.message = "Invalid republic_id"]
            /\ UNCHANGED <<accounts, seq>>
       ELSE /\ uid \in Uids
            /\ accounts' = [u \in DOMAIN accounts \cup {uid} |->
                               IF u = uid THEN newUser ELSE accounts[u]]
            /\ seq' = [seq EXCEPT !.uid = uid]
            /\ resp' = [req EXCEPT !.status = 201, !.issued = token, !.user = newUser,
                                   !.target = uid]
    /\ UNCHANGED <<republics, tasks, wallet, now, residents, pending>>

\* createUser with a body that has no status.
CreateUser(firebase_uid, role, current_republic_id, is_admin) ==
    CreateUserWithStatus(firebase_uid, role, current_republic_id, is_admin, NoStatus)

\* createUser served step by step: registrations on several connections.
\* firebase_uid VARCHAR(255) UNIQUE NOT NULL: the INSERT is refused while a
\* row has the firebase_uid.
FirebaseUidNotUnique(firebase_uid) == FALSE

FirebaseUidTaken(firebase_uid) ==
    \E u \in DOMAIN accounts : accounts[u].firebase_uid = firebase_uid

Connections == 1..MaxPending

\* getUserByFirebaseUID of a registration: answered 409 when it finds a row,
\* otherwise the registration goes on to its INSERT.
BeginCreateUser(conn, firebase_uid, role) ==
    LET request == [conn |-> conn, firebase_uid |-> firebase_uid, role |-> role]
        req == [NoResp EXCEPT !.op = "createUser", !.subject = firebase_uid]
    IN
    /\ Idle
    /\ \A p \in pending : p.conn # conn
    /\ IF GetUserByFirebaseUID(firebase_uid) # NoUser
       THEN /\ resp' = [req EXCEPT !.status = 409, !.message = "Firebase UID already exists"]
            /\ UNCHANGED pending
       ELSE /\ pending' = pending \cup {request}
            /\ UNCHANGED resp
    /\ UNCHANGED <<accounts, republics, tasks, residents, seq, wallet, now>>

\* The INSERT and the answer of a registration that passed its probe.
FinishCreateUser(request) ==
    LET uid == NextKey("uid")
        newUser == [uid |-> uid, firebase_uid |-> request.firebase_uid,
                    role |-> request.role, current_republic_id |-> 0,
                    is_admin |-> FALSE, status |-> NoStatus]
        token == SignToken(uid, RoleOrDefault(request.role))
        req == [NoResp EXCEPT !.op = "createUser", !.subject = request.firebase_uid,
                              !.named = request.conn]
    IN
    /\ Idle
    /\ request \in pending
    /\ pending' = pending \ {request}
    /\ IF FirebaseUidTaken(request.firebase_uid)
       THEN \* 23505
            /\ resp' = [req EXCEPT !.status = 409,
                                   !.message = "Email or Firebase UID already exists"]
            /\ UNCHANGED <<accounts, seq>>
       ELSE /\ uid \in Uids
            /\ accounts' = [u \in DOMAIN accounts \cup {uid} |->
                               IF u = uid THEN newUser ELSE accounts[u]]
            /\ seq' = [seq EXCEPT !.uid = uid]
            /\ resp' = [req EXCEPT !.status = 201, !.issued = token, !.user = newUser,
                                   !.target = uid]
    /\ UNCHANGED <<republics, tasks, residents, wallet, now>>

\* ------------------------------------------------------- POST /auth/login
Login(ft, up) ==
    LET v == VerifyIdToken(ft, up)
        user == GetUserByFirebaseUID(v.uid)
        token == SignToken(user.uid, RoleOrDefault(user.role))
        req == [NoResp EXCEPT !.op = "login", !.subject = v.uid]
    IN
    /\ Idle
    /\ IF ft = NoFirebaseToken
       THEN /\ resp' = [req EXCEPT !.status = 400, !.message = "Validation failed"]
       ELSE IF ~v.ok
       THEN /\ resp' = [req EXCEPT !.status = 401, !.idp = v.idp,
                           !.message = IF v.code = "auth/id-token-expired"
                                       THEN "Token do Firebase expirado"
                                       ELSE "Falha na autenticacao do Firebase"]
       ELSE IF user = NoUser
       THEN /\ resp' = [req EXCEPT !.status = 404, !.idp = v.idp,
                           !.message = "Usuario nao encontrado no banco de dados"]
       ELSE \* updateUser(uid, {last_login}) rewrites no field of the model
            /\ resp' = [req EXCEPT !.status = 200, !.idp = v.idp, !.issued = token,
                                   !.user = user, !.target = user.uid]
    /\ UNCHANGED <<accounts, republics, tasks, seq, wallet, now, residents, pending>>

\* ----------------------------------------------- POST /auth/refresh-token
\* The role signed into the new token: user.role || 'user', of the row read
\* with decoded.id.
RefreshedRoleOfToken(decoded, user) == decoded.role

RefreshedRole(decoded, user) == RoleOrDefault(user.role)

RefreshToken(t) ==
    LET decoded == t
        user == GetUserById(decoded.id)
        newToken == SignToken(user.uid, RefreshedRole(decoded, user))
        req == [NoResp EXCEPT !.op = "refreshToken", !.token = t]
    IN
    /\ Idle
    /\ IF t = NoToken
       THEN /\ resp' = [req EXCEPT !.status = 400, !.message = "Falha na validacao"]
       ELSE IF JwtVerify(t, TRUE) # "ok"
       THEN /\ resp' = [req EXCEPT !.status = 401, !.message = "Token invalido"]
       ELSE IF user = NoUser
       THEN /\ resp' = [req EXCEPT !.status = 404, !.message = "Usuario nao encontrado"]
       ELSE /\ resp' = [req EXCEPT !.status = 200, !.issued = newToken, !.user = user,
                                   !.target = user.uid]
    /\ UNCHANGED <<accounts, republics, tasks, seq, wallet, now, residents, pending>>

\* ------------------------------------------------------ POST /auth/logout
Logout(t) ==
    LET g == Protect(t) IN
    /\ Idle
    /\ resp' = IF ~g.ok THEN Stopped("logout", t, g)
               ELSE [Passed("logout", t, g) EXCEPT !.status = 200,
                        !.message = "Logout realizado com sucesso"]
    /\ UNCHANGED <<accounts, republics, tasks, seq, wallet, now, residents, pending>>

\* ------------------------------- GET /users (protect, restrictTo('admin'))
GetAllUsers(t) ==
    LET g == Protect(t)
        req == Passed("getAllUsers", t, g)
    IN
    /\ Idle
    /\ resp' = IF ~g.ok THEN Stopped("getAllUsers", t, g)
               ELSE IF ~RestrictTo({"admin"}, g.user)
               THEN [req EXCEPT !.status = 403, !.message = "Permissao negada para esta acao"]
               ELSE [req EXCEPT !.status = 200]
    /\ UNCHANGED <<accounts, republics, tasks, seq, wallet, now, residents, pending>>

\* ---------------------------------------------- GET /users/:id (getUserById)
\* up: whether the query of the handler reaches the store.
UserControllerGetUserById(t, id, up) ==
    LET g == Protect(t)
        req == [Passed("getUserById", t, g) EXCEPT !.target = id]
    IN
    /\ Idle
    /\ IF ~g.ok
       THEN resp' = Stopped("getUserById", t, g)
       ELSE IF ~up
       THEN \E env \in NodeEnvs : resp' = GlobalErrorHandler(req, StoreError, env)
       ELSE IF GetUserById(id) = NoUser
       THEN resp' = [req EXCEPT !.status = 404, !.message = "User not found"]
       ELSE resp' = [req EXCEPT !.status = 200]
    /\ UNCHANGED <<accounts, republics, tasks, seq, wallet, now, residents, pending>>

\* ------------------------------------------------ PUT /users/:id (updateUser)
\* The request body names one field (or none); "firebase_uid" stands for the
\* restricted fields.
ProfileBodies ==
    {[field |-> "none", value |-> 0], [field |-> "name", value |-> 0],
     [field |-> "firebase_uid", value |-> 0]}

RoleBodies == {[field |-> "role", value |-> r] : r \in RoleInputs}

MembershipBodies ==
    {[field |-> "current_republic_id", value |-> r] : r \in Rids}
    \cup {[field |-> "is_admin", value |-> b] : b \in BOOLEAN}

StatusBodies == {[field |-> "status", value |-> s] : s \in Statuses}

\* Bodies that name the republic of the account: a republic, or null (0).
RepublicIdBodies == {[field |-> "current_republic_id", value |-> r] : r \in Rids \cup {0}}

\* body('current_republic_id').optional().isUUID(): a value that is present
\* and is not a UUID, null included, fails the validation.
ValidUserBodyAny(body) == TRUE

ValidUserBody(body) == ~(body.field = "current_republic_id" /\ body.value = 0)

RestrictedFields == {"firebase_uid", "provider", "password", "created_at", "last_login"}

\* UPDATE "user" SET <field> = <value> WHERE uid = $1 RETURNING *
UpdatedUser(user, body) ==
    IF body.field = "role" THEN [user EXCEPT !.role = body.value]
    ELSE IF body.field = "current_republic_id"
         THEN [user EXCEPT !.current_republic_id = body.value]
    ELSE IF body.field = "is_admin" THEN [user EXCEPT !.is_admin = body.value]
    ELSE IF body.field = "status" THEN [user EXCEPT !.status = body.value]
    ELSE user

\* req.body.role !== undefined || req.body.current_republic_id !== undefined
HasPermissionChangesNever(body) == FALSE

HasPermissionChanges(body) == body.field \in {"role", "current_republic_id"}

UpdateUser(t, id, body) ==
    LET g == Protect(t)
        authenticatedUser == g.user
        req == [Passed("updateUser", t, g) EXCEPT !.target = id, !.body = body.field]
        updatedUser == UpdatedUser(GetUserById(id), body)
        isOwnProfile == authenticatedUser.uid = id
        hasPermissionChanges == HasPermissionChanges(body)
        token == SignToken(updatedUser.uid, RoleOrDefault(updatedUser.role))
    IN
    /\ Idle
    /\ IF ~g.ok
       THEN /\ resp' = Stopped("updateUser", t, g)
            /\ UNCHANGED accounts
       ELSE IF ~ValidUserBody(body)
       THEN /\ resp' = [req EXCEPT !.status = 400, !.message = "Validation failed"]
            /\ UNCHANGED accounts
       ELSE IF body.field \in RestrictedFields
       THEN /\ resp' = [req EXCEPT !.status = 400, !.message = "Cannot update field"]
            /\ UNCHANGED accounts
       ELSE IF authenticatedUser.role # "admin" /\ authenticatedUser.uid # id
       THEN /\ resp' = [req EXCEPT !.status = 403,
                           !.message = "You do not have permission to update this user"]
            /\ UNCHANGED accounts
       ELSE IF body.field = "none"
       THEN /\ resp' = [req EXCEPT !.status = 400, !.message = "No valid fields to update"]
            /\ UNCHANGED accounts
       ELSE IF \/ id \notin DOMAIN accounts
               \/ /\ body.field = "current_republic_id"
                  /\ body.value # 0
                  /\ body.value \notin DOMAIN republics
       THEN \* rowCount 0, or the foreign key violated: the catch block answers 500
            /\ resp' = [req EXCEPT !.status = 500, !.message = "Failed to update user"]
            /\ UNCHANGED accounts
       ELSE /\ accounts' = [accounts EXCEPT ![id] = updatedUser]
            /\ resp' = IF isOwnProfile \/ hasPermissionChanges
                       THEN [req EXCEPT !.status = 200, !.issued = token]
                       ELSE [req EXCEPT !.status = 200]
    /\ UNCHANGED <<republics, tasks, seq, wallet, now, residents, pending>>

\* --------------------------------------------- DELETE /users/:id (deleteUser)
DeleteUser(t, id) ==
    LET g == Protect(t)
        authenticatedUser == g.user
        req == [Passed("deleteUser", t, g) EXCEPT !.target = id]
    IN
    /\ Idle
    /\ IF ~g.ok
       THEN /\ resp' = Stopped("deleteUser", t, g)
            /\ UNCHANGED accounts
       ELSE IF authenticatedUser.role # "admin" /\ authenticatedUser.uid # id
       THEN /\ resp' = [req EXCEPT !.status = 403,
                           !.message = "You do not have permission to delete this user"]
            /\ UNCHANGED accounts
       ELSE IF id \notin DOMAIN accounts
       THEN /\ resp' = [req EXCEPT !.status = 404, !.message = "User not found"]
            /\ UNCHANGED accounts
       ELSE IF \E r \in DOMAIN republics : republics[r].owner_id = id
       THEN \* fk_republic_owner ON DELETE RESTRICT: the query fails
            /\ \E env \in NodeEnvs : resp' = GlobalErrorHandler(req, ForeignKeyError, env)
            /\ UNCHANGED accounts
       ELSE /\ accounts' = [u \in DOMAIN accounts \ {id} |-> accounts[u]]
            /\ resp' = [req EXCEPT !.status = 204]
    /\ UNCHANGED <<republics, tasks, seq, wallet, now, residents, pending>>

\* ------------------------------------------- POST /republics (createRepublic)
\* code VARCHAR(8) UNIQUE NOT NULL: the row id cannot take the code while
\* another row has it.
UniqueCodeNotEnforced(code, id) == FALSE

UniqueCodeViolated(code, id) ==
    \E r \in DOMAIN republics \ {id} : republics[r].code = code

\* stream holds the outcomes of the passes of the do-while loop of
\* generateRepublicCode, in order. The loop ends at the first pass whose code
\* getRepublicByCode finds no republic with.
GenerateFromFirstDraw(stream, pass) ==
    [code |-> CodeOf(stream[pass]), retries |-> pass - 1, done |-> TRUE]

RECURSIVE GenerateFrom(_, _)
GenerateFrom(stream, pass) ==
    IF pass > Len(stream)
    THEN [code |-> << >>, retries |-> pass - 1, done |-> FALSE]
    ELSE IF GetRepublicByCode(CodeOf(stream[pass])) = NoRepublic
         THEN [code |-> CodeOf(stream[pass]), retries |-> pass - 1, done |-> TRUE]
         ELSE GenerateFrom(stream, pass + 1)

GenerateRepublicCode(stream) == GenerateFrom(stream, 1)

\* The outcomes of the first MaxPasses passes of one call.
Streams == [1..MaxPasses -> Draws]

\* The call whose passes give the draws one after the other.
EachDrawInTurn == [pass \in 1..MaxPasses |-> DrawOf(((pass - 1) % NumDraws) + 1)]

\* { ...req.body, owner_id: ownerId }
RepublicDataAsSent(body, ownerId) == body

RepublicData(body, ownerId) == [body EXCEPT !.owner_id = ownerId]

\* The republics table after the INSERT of a row: pool.query commits each
\* statement by itself.
InsertUndone(republic) == republics

Inserted(republic) ==
    [r \in DOMAIN republics \cup {republic.id} |->
        IF r = republic.id THEN republic ELSE republics[r]]

\* owner_id is the owner the request body names; the handler replaces it
\* with the uid of the authenticated user. The INSERT and the UPDATE of the
\* owner's row follow the generation of the code. up: whether the UPDATE,
\* the second query, reaches the store.
CreateRepublicStore(t, valid, owner_id, stream, up) ==
    LET g == Protect(t)
        ownerId == g.user.uid
        id == NextKey("rid")
        generated == GenerateRepublicCode(stream)
        body == [owner_id |-> owner_id]
        republicData == RepublicData(body, ownerId)
        newRepublic == [id |-> id, owner_id |-> republicData.owner_id,
                        code |-> generated.code]
        updatedUser == [GetUserById(ownerId) EXCEPT !.current_republic_id = id,
                                                    !.is_admin = TRUE]
        token == SignToken(updatedUser.uid, RoleOrDefault(updatedUser.role))
        req == [Passed("createRepublic", t, g) EXCEPT !.target = id,
                                                      !.named = owner_id]
    IN
    /\ Idle
    /\ IF ~g.ok
       THEN /\ resp' = Stopped("createRepublic", t, g)
            /\ UNCHANGED <<accounts, republics, seq>>
       ELSE IF ~valid
       THEN /\ resp' = [req EXCEPT !.status = 400, !.message = "Validation failed"]
            /\ UNCHANGED <<accounts, republics, seq>>
       ELSE IF generated.done /\ UniqueCodeViolated(generated.code, id)
       THEN \* code VARCHAR(8) UNIQUE violated (23505)
            /\ resp' = [req EXCEPT !.status = 409,
                           !.message = "Republic code already exists",
                           !.stream = stream, !.retries = generated.retries]
            /\ UNCHANGED <<accounts, republics, seq>>
       ELSE IF ~up
       THEN \* the INSERT is done, the UPDATE rejects: the catch block answers 500
            /\ id \in Rids
            /\ generated.done
            /\ republics' = Inserted(newRepublic)
            /\ seq' = [seq EXCEPT !.rid = id]
            /\ resp' = [req EXCEPT !.status = 500,
                                   !.message = "Failed to create republic",
                                   !.stream = stream, !.retries = generated.retries]
            /\ UNCHANGED accounts
       ELSE /\ id \in Rids
            /\ generated.done
            /\ republics' = Inserted(newRepublic)
            /\ accounts' = [accounts EXCEPT ![ownerId] = updatedUser]
            /\ seq' = [seq EXCEPT !.rid = id]
            /\ resp' = [req EXCEPT !.status = 201, !.issued = token,
                                   !.stream = stream, !.retries = generated.retries]
    /\ UNCHANGED <<tasks, wallet, now, residents, pending>>

\* createRepublic with the store reached by every query.
CreateRepublic(t, valid, owner_id, stream) ==
    CreateRepublicStore(t, valid, owner_id, stream, TRUE)

\* createRepublic as two steps, for requests served at the same time: the
\* handler awaits generateRepublicCode, and other requests run before its
\* INSERT. pending holds the requests that have their code and wait for the
\* INSERT: what the rest of the handler reads is ownerId, the body and the
\* code.
BeginCreateRepublic(t, owner_id, stream) ==
    LET g == Protect(t)
        generated == GenerateRepublicCode(stream)
        request == [ownerId |-> g.user.uid, named |-> owner_id,
                    code |-> generated.code]
    IN
    /\ Idle
    /\ IF ~g.ok
       THEN /\ resp' = Stopped("createRepublic", t, g)
            /\ UNCHANGED pending
       ELSE /\ generated.done
            /\ request \notin pending
            /\ Cardinality(pending) < MaxPending
            /\ pending' = pending \cup {request}
            /\ UNCHANGED resp
    /\ UNCHANGED <<accounts, republics, tasks, residents, seq, wallet, now>>

\* The INSERT, the UPDATE of the owner's row and the answer of one request
\* that has its code.
FinishCreateRepublic(request) ==
    LET ownerId == request.ownerId
        id == NextKey("rid")
        republicData == RepublicData([owner_id |-> request.named], ownerId)
        newRepublic == [id |-> id, owner_id |-> republicData.owner_id,
                        code |-> request.code]
        updatedUser == [GetUserById(ownerId) EXCEPT !.current_republic_id = id,
                                                    !.is_admin = TRUE]
        token == SignToken(updatedUser.uid, RoleOrDefault(updatedUser.role))
        req == [NoResp EXCEPT !.op = "createRepublic", !.handled = TRUE,
                              !.user = [NoUser EXCEPT !.uid = ownerId],
                              !.target = id, !.named = request.named]
    IN
    /\ Idle
    /\ request \in pending
    /\ pending' = pending \ {request}
    /\ IF GetUserById(ownerId) = NoUser
       THEN \* fk_republic_owner violated (23503)
            /\ resp' = [req EXCEPT !.status = 400, !.message = "Invalid owner_id"]
            /\ UNCHANGED <<accounts, republics, seq>>
       ELSE IF UniqueCodeViolated(request.code, id)
       THEN \* 23505
            /\ resp' = [req EXCEPT !.status = 409,
                                   !.message = "Republic code already exists"]
            /\ UNCHANGED <<accounts, republics, seq>>
       ELSE /\ id \in Rids
            /\ republics' = [r \in DOMAIN republics \cup {id} |->
                                IF r = id THEN newRepublic ELSE republics[r]]
            /\ accounts' = [accounts EXCEPT ![ownerId] = updatedUser]
            /\ seq' = [seq EXCEPT !.rid = id]
            /\ resp' = [req EXCEPT !.status = 201, !.issued = token]
    /\ UNCHANGED <<tasks, residents, wallet, now>>

\* generateRepublicCode pass by pass. A request in the while loop is a record
\* of pending with the loop's variables, code and isCodeUnique; the loop has
\* no counter and no exit but isCodeUnique.
IsCodeUniqueNever(existingRepublic) == FALSE

\* isCodeUnique = !existingRepublic
IsCodeUnique(existingRepublic) == existingRepublic = NoRepublic

\* createRepublic up to the call of generateRepublicCode: code = '',
\* isCodeUnique = false.
StartCreateRepublic(t) ==
    LET g == Protect(t)
        request == [ownerId |-> g.user.uid, named |-> g.user.uid,
                    code |-> << >>, isCodeUnique |-> FALSE]
    IN
    /\ Idle
    /\ IF ~g.ok
       THEN /\ resp' = Stopped("createRepublic", t, g)
            /\ UNCHANGED pending
       ELSE /\ \A p \in pending : p.ownerId # g.user.uid
            /\ Cardinality(pending) < MaxPending
            /\ pending' = pending \cup {request}
            /\ UNCHANGED resp
    /\ UNCHANGED <<accounts, republics, tasks, residents, seq, wallet, now>>

\* One pass of the while loop of a request: six characters drawn, then
\* getRepublicByCode.
GenerateRepublicCodePass(request, draw) ==
    LET code == CodeOf(draw)
        existingRepublic == GetRepublicByCode(code)
    IN
    /\ request \in pending
    /\ ~request.isCodeUnique
    /\ pending' = (pending \ {request})
                      \cup {[request EXCEPT !.code = code,
                                            !.isCodeUnique = IsCodeUnique(existingRepublic)]}
    /\ UNCHANGED <<accounts, republics, tasks, residents, seq, wallet, now, resp>>

\* The pass of the request of one owner that draws one draw.
PassOf(ownerId, draw) ==
    \E request \in pending :
        request.ownerId = ownerId /\ GenerateRepublicCodePass(request, draw)

\* The rest of createRepublic once the loop has returned the code.
InsertGenerated(request) ==
    /\ request.isCodeUnique
    /\ FinishCreateRepublic(request)

\* ------------------------------------- POST /republics/join/:code
\* updateUserRepublic: with a republic, UPDATE "user" SET current_republic_id
\* = $2; with none (0), current_republic_id = NULL and is_admin = FALSE.
UpdateUserRepublicNoRow(user, republicId) == user

UpdateUserRepublic(user, republicId) ==
    IF republicId = 0
    THEN [user EXCEPT !.current_republic_id = 0, !.is_admin = FALSE]
    ELSE [user EXCEPT !.current_republic_id = republicId]

\* user.current_republic_id === republic.id
AlreadyMemberNever(user, republic) == FALSE

AlreadyMember(user, republic) == user.current_republic_id = republic.id

JoinRepublicByCode(t, code) ==
    LET g == Protect(t)
        authenticatedUser == g.user
        republic == GetRepublicByCode(code)
        user == GetUserById(authenticatedUser.uid)
        updatedUser == UpdateUserRepublic(user, republic.id)
        token == SignToken(updatedUser.uid, RoleOrDefault(updatedUser.role))
        req == [Passed("joinRepublicByCode", t, g) EXCEPT !.target = republic.id]
    IN
    /\ Idle
    /\ IF ~g.ok
       THEN /\ resp' = Stopped("joinRepublicByCode", t, g)
            /\ UNCHANGED accounts
       ELSE IF republic = NoRepublic
       THEN /\ resp' = [req EXCEPT !.status = 404,
                           !.message = "Republic not found with this code"]
            /\ UNCHANGED accounts
       ELSE IF AlreadyMember(user, republic)
       THEN /\ resp' = [req EXCEPT !.status = 400,
                           !.message = "You are already a member of this republic"]
            /\ UNCHANGED accounts
       ELSE /\ accounts' = [accounts EXCEPT ![user.uid] = updatedUser]
            /\ resp' = [req EXCEPT !.status = 200, !.issued = token]
    /\ UNCHANGED <<republics, tasks, seq, wallet, now, residents, pending>>

\* ------------------------------------------ PUT /republics/:id (updateRepublic)
\* The body names one field (or none): "name" stands for the address fields.
AddressBodies == {[field |-> "none", value |-> 0], [field |-> "name", value |-> 0]}

RepublicBodies == AddressBodies \cup {[field |-> "owner_id", value |-> u] : u \in Uids}

\* A body that names the code: the validators of the route let it through.
CodeBodies == {[field |-> "code", value |-> c] : c \in Codes}

UpdateRepublic(t, id, body) ==
    LET g == Protect(t)
        republic == GetRepublicById(id)
        req == [Passed("updateRepublic", t, g) EXCEPT !.target = id, !.body = body.field]
    IN
    /\ Idle
    /\ IF ~g.ok
       THEN /\ resp' = Stopped("updateRepublic", t, g)
            /\ UNCHANGED republics
       ELSE IF republic = NoRepublic
       THEN /\ resp' = [req EXCEPT !.status = 404, !.message = "Republic not found"]
            /\ UNCHANGED republics
       ELSE IF g.user.role # "admin" /\ g.user.uid # republic.owner_id
       THEN /\ resp' = [req EXCEPT !.status = 403,
                           !.message = "You do not have permission to update this republic"]
            /\ UNCHANGED republics
       ELSE IF body.field = "none"
       THEN /\ resp' = [req EXCEPT !.status = 400, !.message = "No valid fields to update"]
            /\ UNCHANGED republics
       ELSE IF body.field = "owner_id" /\ body.value \notin DOMAIN accounts
       THEN \* fk_republic_owner violated (23503)
            /\ resp' = [req EXCEPT !.status = 400, !.message = "Invalid owner_id"]
            /\ UNCHANGED republics
       ELSE IF body.field = "code" /\ UniqueCodeViolated(body.value, id)
       THEN \* 23505 is not told apart by the catch block
            /\ resp' = [req EXCEPT !.status = 500, !.message = "Failed to update Republic"]
            /\ UNCHANGED republics
       ELSE /\ republics' = IF body.field = "owner_id"
                            THEN [republics EXCEPT ![id].owner_id = body.value]
                            ELSE IF body.field = "code"
                            THEN [republics EXCEPT ![id].code = body.value]
                            ELSE republics
            /\ resp' = [req EXCEPT !.status = 200]
    /\ UNCHANGED <<accounts, tasks, seq, wallet, now, residents, pending>>

\* --------------------------------------- DELETE /republics/:id (deleteRepublic)
\* The handler as the controller exports it; the republic router registers
\* no route for it. The rule the residents rows of the republic follow at the
\* DELETE is not in the schema: the action is taken where no residents rows
\* exist.
\* req.user.role !== 'admin' && req.user.uid !== republic.owner_id
DeleteDeniedNever(user, republic) == FALSE

DeleteDeniedByMembership(user, republic) ==
    user.role # "admin" /\ user.current_republic_id # republic.id

DeleteDenied(user, republic) == user.role # "admin" /\ user.uid # republic.owner_id

\* UPDATE "user" SET current_republic_id = NULL, is_admin = FALSE
\* WHERE current_republic_id = $1, on one row
DisassociatedKeepingFlag(user, id) ==
    IF user.current_republic_id = id THEN [user EXCEPT !.current_republic_id = 0]
    ELSE user

Disassociated(user, id) ==
    IF user.current_republic_id = id
    THEN [user EXCEPT !.current_republic_id = 0, !.is_admin = FALSE]
    ELSE user

DeleteRepublic(t, id) ==
    LET g == Protect(t)
        republic == GetRepublicById(id)
        req == [Passed("deleteRepublic", t, g) EXCEPT !.target = id]
    IN
    /\ Idle
    /\ IF ~g.ok
       THEN /\ resp' = Stopped("deleteRepublic", t, g)
            /\ UNCHANGED <<accounts, republics, tasks>>
       ELSE IF republic = NoRepublic
       THEN /\ resp' = [req EXCEPT !.status = 404, !.message = "Republic not found"]
            /\ UNCHANGED <<accounts, republics, tasks>>
       ELSE IF DeleteDenied(g.user, republic)
       THEN /\ resp' = [req EXCEPT !.status = 403,
                           !.message = "You do not have permission to delete this republic"]
            /\ UNCHANGED <<accounts, republics, tasks>>
       ELSE \* UPDATE "user" SET current_republic_id = NULL, is_admin = FALSE ...;
            \* DELETE FROM republics ...; fk_task_republic ON DELETE CASCADE
            /\ accounts' = [u \in DOMAIN accounts |-> Disassociated(accounts[u], id)]
            /\ republics' = [r \in DOMAIN republics \ {id} |-> republics[r]]
            /\ tasks' = [k \in {k \in DOMAIN tasks : tasks[k].republic_id # id} |-> tasks[k]]
            /\ resp' = [req EXCEPT !.status = 204]
    /\ UNCHANGED <<seq, wallet, now, residents, pending>>

\* joinRepublicByCode and deleteRepublic served step by step. pending holds
\* the requests that are between their queries: a join that has found its
\* republic, a delete that has disassociated the members.
\* fk_user_republic: current_republic_id REFERENCES republics(id).
FkUserRepublicNotEnforced(republicId) == FALSE

FkUserRepublicViolated(republicId) == republicId \notin DOMAIN republics

\* fk_user_republic ON DELETE SET NULL
SetNull(user, id) ==
    IF user.current_republic_id = id THEN [user EXCEPT !.current_republic_id = 0]
    ELSE user

\* joinRepublicByCode up to the call of updateUserRepublic.
BeginJoinRepublicByCode(t, code) ==
    LET g == Protect(t)
        authenticatedUser == g.user
        republic == GetRepublicByCode(code)
        user == GetUserById(authenticatedUser.uid)
        request == [kind |-> "join", uid |-> user.uid, republicId |-> republic.id]
        req == [Passed("joinRepublicByCode", t, g) EXCEPT !.target = republic.id]
    IN
    /\ Idle
    /\ IF ~g.ok
       THEN /\ resp' = Stopped("joinRepublicByCode", t, g)
            /\ UNCHANGED pending
       ELSE IF republic = NoRepublic
       THEN /\ resp' = [req EXCEPT !.status = 404,
                           !.message = "Republic not found with this code"]
            /\ UNCHANGED pending
       ELSE IF AlreadyMember(user, republic)
       THEN /\ resp' = [req EXCEPT !.status = 400,
                           !.message = "You are already a member of this republic"]
            /\ UNCHANGED pending
       ELSE /\ request \notin pending
            /\ Cardinality(pending) < MaxPending
            /\ pending' = pending \cup {request}
            /\ UNCHANGED resp
    /\ UNCHANGED <<accounts, republics, tasks, residents, seq, wallet, now>>

\* updateUserRepublic and the answer of a join.
FinishJoinRepublicByCode(request) ==
    LET user == GetUserById(request.uid)
        updatedUser == UpdateUserRepublic(user, request.republicId)
        token == SignToken(updatedUser.uid, RoleOrDefault(updatedUser.role))
        req == [NoResp EXCEPT !.op = "joinRepublicByCode", !.handled = TRUE,
                              !.user = [NoUser EXCEPT !.uid = request.uid],
                              !.target = request.republicId]
    IN
    /\ Idle
    /\ request \in pending
    /\ request.kind = "join"
    /\ pending' = pending \ {request}
    /\ IF user = NoUser
       THEN /\ resp' = [req EXCEPT !.status = 404, !.message = "User not found"]
            /\ UNCHANGED accounts
       ELSE IF FkUserRepublicViolated(request.republicId)
       THEN \* 23503
            /\ resp' = [req EXCEPT !.status = 400, !.message = "Invalid republic_id"]
            /\ UNCHANGED accounts
       ELSE /\ accounts' = [accounts EXCEPT ![user.uid] = updatedUser]
            /\ resp' = [req EXCEPT !.status = 200, !.issued = token]
    /\ UNCHANGED <<republics, tasks, residents, seq, wallet, now>>

\* deleteRepublic up to the UPDATE that disassociates the members.
BeginDeleteRepublic(t, id) ==
    LET g == Protect(t)
        republic == GetRepublicById(id)
        request == [kind |-> "delete", uid |-> g.user.uid, republicId |-> id]
        req == [Passed("deleteRepublic", t, g) EXCEPT !.target = id]
    IN
    /\ Idle
    /\ IF ~g.ok
       THEN /\ resp' = Stopped("deleteRepublic", t, g)
            /\ UNCHANGED <<accounts, pending>>
       ELSE IF republic = NoRepublic
       THEN /\ resp' = [req EXCEPT !.status = 404, !.message = "Republic not found"]
            /\ UNCHANGED <<accounts, pending>>
       ELSE IF DeleteDenied(g.user, republic)
       THEN /\ resp' = [req EXCEPT !.status = 403,
                           !.message = "You do not have permission to delete this republic"]
            /\ UNCHANGED <<accounts, pending>>
       ELSE /\ request \notin pending
            /\ Cardinality(pending) < MaxPending
            /\ accounts' = [u \in DOMAIN accounts |-> Disassociated(accounts[u], id)]
            /\ pending' = pending \cup {request}
            /\ UNCHANGED resp
    /\ UNCHANGED <<republics, tasks, residents, seq, wallet, now>>

\* DELETE FROM republics and the answer of a delete.
FinishDeleteRepublic(request) ==
    LET id == request.republicId
        req == [NoResp EXCEPT !.op = "deleteRepublic", !.handled = TRUE,
                              !.user = [NoUser EXCEPT !.uid = request.uid],
                              !.target = id]
    IN
    /\ Idle
    /\ request \in pending
    /\ request.kind = "delete"
    /\ pending' = pending \ {request}
    /\ IF id \notin DOMAIN republics
       THEN \* rowCount 0
            /\ resp' = [req EXCEPT !.status = 404, !.message = "Republic not found"]
            /\ UNCHANGED <<accounts, republics, tasks>>
       ELSE /\ republics' = [r \in DOMAIN republics \ {id} |-> republics[r]]
            /\ accounts' = [u \in DOMAIN accounts |-> SetNull(accounts[u], id)]
            /\ tasks' = [k \in {k \in DOMAIN tasks : tasks[k].republic_id # id} |-> tasks[k]]
            /\ resp' = [req EXCEPT !.status = 204]
    /\ UNCHANGED <<residents, seq, wallet, now>>

\* ---------------------------------------------------- POST /tasks (createTask)
CreateTask(t, republic_id) ==
    LET g == Protect(t)
        user == g.user
        id == NextKey("tid")
        newTask == [id |-> id, republic_id |-> republic_id, is_completed |-> FALSE]
        req == [Passed("createTask", t, g) EXCEPT !.target = republic_id]
    IN
    /\ Idle
    /\ IF ~g.ok
       THEN /\ resp' = Stopped("createTask", t, g)
            /\ UNCHANGED <<tasks, seq>>
       ELSE IF user.current_republic_id # republic_id
       THEN /\ resp' = [req EXCEPT !.status = 403,
                           !.message = "You can only create tasks for your own republic"]
            /\ UNCHANGED <<tasks, seq>>
       ELSE IF republic_id \notin DOMAIN republics
       THEN \* fk_task_republic violated (23503)
            /\ resp' = [req EXCEPT !.status = 400, !.message = "Invalid republic_id"]
            /\ UNCHANGED <<tasks, seq>>
       ELSE /\ id \in Tids
            /\ tasks' = [k \in DOMAIN tasks \cup {id} |->
                            IF k = id THEN newTask ELSE tasks[k]]
            /\ seq' = [seq EXCEPT !.tid = id]
            /\ resp' = [req EXCEPT !.status = 201]
    /\ UNCHANGED <<accounts, republics, wallet, now, residents, pending>>

\* ------------------------------------------------- GET /tasks/:id (getTaskById)
GetTaskById(t, id) ==
    LET g == Protect(t)
        user == g.user
        task == TaskModelGetTaskById(id)
        req == [Passed("getTaskById", t, g) EXCEPT !.target = id]
    IN
    /\ Idle
    /\ resp' = IF ~g.ok THEN Stopped("getTaskById", t, g)
               ELSE IF task = NoTask
               THEN [req EXCEPT !.status = 404, !.message = "Task not found"]
               ELSE IF user.current_republic_id # task.republic_id
               THEN [req EXCEPT !.status = 403,
                        !.message = "You do not have permission to access this task"]
               ELSE [req EXCEPT !.status = 200]
    /\ UNCHANGED <<accounts, republics, tasks, seq, wallet, now, residents, pending>>

\* ---------------------------------- PATCH /tasks/:id/complete (completeTask)
CompleteTask(t, id) ==
    LET g == Protect(t)
        user == g.user
        task == TaskModelGetTaskById(id)
        req == [Passed("completeTask", t, g) EXCEPT !.target = id]
    IN
    /\ Idle
    /\ IF ~g.ok
       THEN /\ resp' = Stopped("completeTask", t, g)
            /\ UNCHANGED tasks
       ELSE IF task = NoTask
       THEN /\ resp' = [req EXCEPT !.status = 404, !.message = "Task not found"]
            /\ UNCHANGED tasks
       ELSE IF user.current_republic_id # task.republic_id /\ user.role # "admin"
       THEN /\ resp' = [req EXCEPT !.status = 403,
                           !.message = "You do not have permission to update this task"]
            /\ UNCHANGED tasks
       ELSE /\ tasks' = [tasks EXCEPT ![id].is_completed = TRUE]
            /\ resp' = [req EXCEPT !.status = 200]
    /\ UNCHANGED <<accounts, republics, seq, wallet, now, residents, pending>>

\* -------------------------------------------- DELETE /tasks/:id (deleteTask)
DeleteTask(t, id) ==
    LET g == Protect(t)
        user == g.user
        task == TaskModelGetTaskById(id)
        req == [Passed("deleteTask", t, g) EXCEPT !.target = id]
    IN
    /\ Idle
    /\ IF ~g.ok
       THEN /\ resp' = Stopped("deleteTask", t, g)
            /\ UNCHANGED tasks
       ELSE IF task = NoTask
       THEN /\ resp' = [req EXCEPT !.status = 404, !.message = "Task not found"]
            /\ UNCHANGED tasks
       ELSE IF user.current_republic_id # task.republic_id /\ user.role # "admin"
       THEN /\ resp' = [req EXCEPT !.status = 403,
                           !.message = "You do not have permission to delete this task"]
            /\ UNCHANGED tasks
       ELSE /\ tasks' = [k \in DOMAIN tasks \ {id} |-> tasks[k]]
            /\ resp' = [req EXCEPT !.status = 204]
    /\ UNCHANGED <<accounts, republics, seq, wallet, now, residents, pending>>

\* ------------------------------------------------ PUT /tasks/:id (updateTask)
\* The body names one field (or none): "title" stands for the task's fields.
TaskBodies == {"none", "title"}

UpdateTask(t, id, body) ==
    LET g == Protect(t)
        user == g.user
        task == TaskModelGetTaskById(id)
        req == [Passed("updateTask", t, g) EXCEPT !.target = id, !.body = body]
    IN
    /\ Idle
    /\ IF ~g.ok
       THEN resp' = Stopped("updateTask", t, g)
       ELSE IF task = NoTask
       THEN resp' = [req EXCEPT !.status = 404, !.message = "Task not found"]
       ELSE IF user.current_republic_id # task.republic_id /\ user.role # "admin"
       THEN resp' = [req EXCEPT !.status = 403,
                        !.message = "You do not have permission to update this task"]
       ELSE IF body = "none"
       THEN resp' = [req EXCEPT !.status = 400, !.message = "No valid fields to update"]
       ELSE resp' = [req EXCEPT !.status = 200]
    /\ UNCHANGED <<accounts, republics, tasks, residents, seq, wallet, now, pending>>

\* ----------------------------------------------------------- resident.model
GetResidentById(id) ==
    IF id \in DOMAIN residents THEN residents[id] ELSE NoResident

\* The dates a residency can start on.
EntryDates == {"2024-01-01"}

\* ---------------------------------------------- POST /residents (createResident)
\* The route runs protect and the validators; the handler passes the body to
\* the INSERT.
CreateResident(t, republic_id, user_id, entry_date) ==
    LET g == Protect(t)
        id == NextKey("sid")
        newResident == [id |-> id, republic_id |-> republic_id, user_id |-> user_id,
                        entry_date |-> entry_date, departed |-> FALSE]
        req == [Passed("createResident", t, g) EXCEPT !.target = republic_id]
    IN
    /\ Idle
    /\ IF ~g.ok
       THEN /\ resp' = Stopped("createResident", t, g)
            /\ UNCHANGED <<residents, seq>>
       ELSE IF \E k \in DOMAIN residents :
                   /\ residents[k].republic_id = republic_id
                   /\ residents[k].user_id = user_id
                   /\ residents[k].entry_date = entry_date
       THEN /\ resp' = [req EXCEPT !.status = 409,
                           !.message = "Resident already exists with this entry date"]
            /\ UNCHANGED <<residents, seq>>
       ELSE IF GetRepublicById(republic_id) = NoRepublic \/ GetUserById(user_id) = NoUser
       THEN /\ resp' = [req EXCEPT !.status = 400,
                           !.message = "Invalid republic_id or user_id"]
            /\ UNCHANGED <<residents, seq>>
       ELSE /\ id \in Sids
            /\ residents' = [k \in DOMAIN residents \cup {id} |->
                                IF k = id THEN newResident ELSE residents[k]]
            /\ seq' = [seq EXCEPT !.sid = id]
            /\ resp' = [req EXCEPT !.status = 201]
    /\ UNCHANGED <<accounts, republics, tasks, wallet, now, pending>>

\* --------------------------------------------- PUT /residents/:id (updateResident)
\* The body names one field (or none): "entry_date" stands for the dates.
ResidentBodies == {"none", "entry_date"}

UpdateResident(t, id, body) ==
    LET g == Protect(t)
        resident == GetResidentById(id)
        req == [Passed("updateResident", t, g) EXCEPT !.target = resident.republic_id,
                                                      !.body = body]
    IN
    /\ Idle
    /\ IF ~g.ok
       THEN resp' = Stopped("updateResident", t, g)
       ELSE IF body = "none"
       THEN resp' = [req EXCEPT !.status = 400, !.message = "No valid fields to update"]
       ELSE IF resident = NoResident
       THEN \* the 404 thrown inside the try block is caught and replaced
            resp' = [req EXCEPT !.status = 500, !.message = "Failed to update resident"]
       ELSE resp' = [req EXCEPT !.status = 200]
    /\ UNCHANGED <<accounts, republics, tasks, residents, seq, wallet, now, pending>>

\* ------------------------------------------ DELETE /residents/:id (deleteResident)
\* A soft delete: the row stays, with its departure date set.
DeleteResident(t, id) ==
    LET g == Protect(t)
        resident == GetResidentById(id)
        req == [Passed("deleteResident", t, g) EXCEPT !.target = resident.republic_id]
    IN
    /\ Idle
    /\ IF ~g.ok
       THEN /\ resp' = Stopped("deleteResident", t, g)
            /\ UNCHANGED residents
       ELSE IF resident = NoResident
       THEN /\ resp' = [req EXCEPT !.status = 404, !.message = "Resident not found"]
            /\ UNCHANGED residents
       ELSE /\ residents' = [residents EXCEPT ![id].departed = TRUE]
            /\ resp' = [req EXCEPT !.status = 204]
    /\ UNCHANGED <<accounts, republics, tasks, seq, wallet, now, pending>>

Next ==
    \/ Tick
    \/ Deliver
    \/ \E f \in Subjects, r \in RoleInputs \cup {NoRole} : CreateUser(f, r, 0, FALSE)
    \/ \E ft \in FirebaseTokens \cup {NoFirebaseToken} : Login(ft, TRUE)
    \/ \E ft \in FirebaseTokens : ft.validity = "valid" /\ Login(ft, FALSE)
    \/ \E t \in Presentable : RefreshToken(t)
    \/ \E t \in Presentable : Logout(t)
    \/ \E t \in Presentable : GetAllUsers(t)
    \/ \E t \in Presentable, id \in Uids, b \in ProfileBodies \cup RoleBodies :
          UpdateUser(t, id, b)
    \/ \E t \in Presentable, id \in Uids : DeleteUser(t, id)

Spec == Init /\ [][Next]_vars

\* The session of one user: every operation that hands that user a token,
\* and the guard that verifies the tokens, as the clock runs.
SessionSubject == "fb-a"

NextSession ==
    \/ Tick
    \/ Deliver
    \/ \E r \in RoleInputs : CreateUser(SessionSubject, r, 0, FALSE)
    \/ Login([sub |-> SessionSubject, validity |-> "valid"], TRUE)
    \/ \E t \in wallet : RefreshToken(t)
    \/ \E t \in wallet : Logout(t)
    \/ \E t \in wallet : GetAllUsers(t)
    \/ \E t \in wallet, id \in Uids, b \in RoleBodies : UpdateUser(t, id, b)
    \/ \E t \in wallet, s \in Streams : CreateRepublic(t, TRUE, t.id, s)
    \/ \E t \in wallet, c \in Codes : JoinRepublicByCode(t, c)

SpecSession == Init /\ [][NextSession]_vars

\* The requests on republics and tasks, made with tokens that are in date.
NextPolicy ==
    \/ Deliver
    \/ \E f \in Subjects, r \in RoleInputs : CreateUser(f, r, 0, FALSE)
    \/ \E t \in wallet, id \in Uids, b \in MembershipBodies : UpdateUser(t, id, b)
    \/ \E t \in wallet, id \in Uids : DeleteUser(t, id)
    \/ \E t \in wallet, s \in Streams : CreateRepublic(t, TRUE, t.id, s)
    \/ \E t \in Presentable, s \in Streams : CreateRepublic(t, FALSE, t.id, s)
    \/ \E t \in wallet, c \in Codes : JoinRepublicByCode(t, c)
    \/ \E t \in wallet, id \in Rids, b \in RepublicBodies : UpdateRepublic(t, id, b)
    \/ \E t \in wallet, id \in Rids : DeleteRepublic(t, id)
    \/ \E t \in wallet, r \in Rids : CreateTask(t, r)
    \/ \E t \in wallet, id \in Tids : GetTaskById(t, id)
    \/ \E t \in wallet, id \in Tids : CompleteTask(t, id)
    \/ \E t \in wallet, id \in Tids : DeleteTask(t, id)

SpecPolicy == Init /\ [][NextPolicy]_vars

\* The requests on the records of a republic (tasks, residents), made by
\* users who found or join republics.
NextResidents ==
    \/ Deliver
    \/ \E f \in Subjects, r \in RoleInputs : CreateUser(f, r, 0, FALSE)
    \/ \E t \in wallet, s \in Streams : CreateRepublic(t, TRUE, t.id, s)
    \/ \E t \in wallet, c \in Codes : JoinRepublicByCode(t, c)
    \/ \E t \in wallet, r \in Rids : CreateTask(t, r)
    \/ \E t \in wallet, id \in Tids, b \in TaskBodies : UpdateTask(t, id, b)
    \/ \E t \in wallet, id \in Tids : CompleteTask(t, id)
    \/ \E t \in wallet, id \in Tids : DeleteTask(t, id)
    \/ \E t \in wallet, r \in Rids, u \in Uids, d \in EntryDates :
          CreateResident(t, r, u, d)
    \/ \E t \in wallet, id \in Sids, b \in ResidentBodies : UpdateResident(t, id, b)
    \/ \E t \in wallet, id \in Sids : DeleteResident(t, id)

SpecResidents == Init /\ [][NextResidents]_vars

\* The update and delete requests on accounts, republics and tasks.
NextOwnership ==
    \/ Deliver
    \/ \E f \in Subjects, r \in RoleInputs : CreateUser(f, r, 0, FALSE)
    \/ \E t \in wallet, id \in Uids, b \in ProfileBodies : UpdateUser(t, id, b)
    \/ \E t \in wallet, id \in Uids : DeleteUser(t, id)
    \/ \E t \in wallet : CreateRepublic(t, TRUE, t.id, EachDrawInTurn)
    \/ \E t \in wallet, id \in Rids, b \in AddressBodies : UpdateRepublic(t, id, b)
    \/ \E t \in wallet, id \in Rids : DeleteRepublic(t, id)
    \/ \E t \in wallet, r \in Rids : CreateTask(t, r)
    \/ \E t \in wallet, id \in Tids, b \in TaskBodies : UpdateTask(t, id, b)
    \/ \E t \in wallet, id \in Tids : DeleteTask(t, id)

SpecOwnership == Init /\ [][NextOwnership]_vars

\* The membership transitions: users found, join and delete republics.
NextMembership ==
    \/ Deliver
    \/ \E f \in Subjects, r \in {"user", NoRole} : CreateUser(f, r, 0, FALSE)
    \/ \E t \in wallet, o \in Uids, s \in Streams : CreateRepublic(t, TRUE, o, s)
    \/ \E t \in wallet, c \in Codes : JoinRepublicByCode(t, c)
    \/ \E t \in wallet, id \in Rids : DeleteRepublic(t, id)

SpecMembership == Init /\ [][NextMembership]_vars

\* Requests on republics served at the same time: a createRepublic is
\* overtaken between its code and its INSERT.
NextConcurrent ==
    \/ Deliver
    \/ \E f \in Subjects : CreateUser(f, "user", 0, FALSE)
    \/ \E t \in wallet, s \in Streams : BeginCreateRepublic(t, t.id, s)
    \/ \E request \in pending : FinishCreateRepublic(request)
    \/ \E t \in wallet, id \in Rids, b \in CodeBodies : UpdateRepublic(t, id, b)
    \/ \E t \in wallet, id \in Rids : DeleteRepublic(t, id)

SpecConcurrent == Init /\ [][NextConcurrent]_vars

\* Republics founded, joined and deleted by users and administrators.
NextDeletion ==
    \/ Deliver
    \/ \E f \in Subjects, r \in RoleInputs : CreateUser(f, r, 0, FALSE)
    \/ \E t \in wallet : CreateRepublic(t, TRUE, t.id, EachDrawInTurn)
    \/ \E t \in wallet, c \in Codes : JoinRepublicByCode(t, c)
    \/ \E t \in wallet, id \in Rids : DeleteRepublic(t, id)

SpecDeletion == Init /\ [][NextDeletion]_vars

\* The operations that write current_republic_id.
NextLeave ==
    \/ Deliver
    \/ \E f \in Subjects, r \in RoleInputs : CreateUser(f, r, 0, FALSE)
    \/ \E t \in wallet, id \in Uids, b \in RepublicIdBodies : UpdateUser(t, id, b)
    \/ \E t \in wallet : CreateRepublic(t, TRUE, t.id, EachDrawInTurn)
    \/ \E t \in wallet, c \in Codes : JoinRepublicByCode(t, c)
    \/ \E t \in wallet, id \in Rids : DeleteRepublic(t, id)

SpecLeave == Init /\ [][NextLeave]_vars

\* =================================================================== claims
\* The operations behind protect.
\* Accounts of every status that log in, refresh and pass the guard.
NextStatus ==
    \/ Deliver
    \/ \E f \in Subjects, st \in Statuses \cup {NoStatus} :
          CreateUserWithStatus(f, "user", 0, FALSE, st)
    \/ \E ft \in FirebaseTokens : Login(ft, TRUE)
    \/ \E t \in wallet : RefreshToken(t)
    \/ \E t \in wallet, id \in Uids : UserControllerGetUserById(t, id, TRUE)
    \/ \E t \in wallet, b \in StatusBodies : UpdateUser(t, t.id, b)
    \/ \E t \in wallet : DeleteUser(t, t.id)

SpecStatus == Init /\ [][NextStatus]_vars

\* Joins and deletes of republics served concurrently.
NextJoinDelete ==
    \/ Deliver
    \/ \E f \in Subjects : CreateUser(f, "user", 0, FALSE)
    \/ \E t \in wallet : CreateRepublic(t, TRUE, t.id, EachDrawInTurn)
    \/ \E t \in wallet, c \in Codes : BeginJoinRepublicByCode(t, c)
    \/ \E request \in pending : FinishJoinRepublicByCode(request)
    \/ \E t \in wallet, id \in Rids : BeginDeleteRepublic(t, id)
    \/ \E request \in pending : FinishDeleteRepublic(request)

SpecJoinDelete == Init /\ [][NextJoinDelete]_vars

\* createRepublic with the loop of generateRepublicCode served pass by pass.
NextGeneration ==
    \/ Deliver
    \/ \E f \in Subjects : CreateUser(f, "user", 0, FALSE)
    \/ \E t \in wallet : StartCreateRepublic(t)
    \/ \E u \in Uids, d \in Draws : PassOf(u, d)
    \/ \E request \in pending : InsertGenerated(request)
    \/ \E t \in wallet, id \in DOMAIN republics :
          republics[id].owner_id = t.id /\ DeleteRepublic(t, id)

SpecGeneration == Init /\ [][NextGeneration]_vars

\* Math.random taken as fair: a request that stays in the loop makes passes,
\* and each draw comes up in them again and again.
FairDraws == \A u \in Uids, d \in Draws : WF_vars(PassOf(u, d))

SpecGenerationFair == SpecGeneration /\ FairDraws

\* Republics created while the store may fail between the two queries.
NextPartial ==
    \/ Deliver
    \/ \E f \in Subjects, r \in RoleInputs : CreateUser(f, r, 0, FALSE)
    \/ \E t \in wallet, up \in BOOLEAN :
          CreateRepublicStore(t, TRUE, t.id, EachDrawInTurn, up)
    \/ \E t \in wallet, c \in Codes : JoinRepublicByCode(t, c)
    \/ \E t \in wallet, id \in Rids : DeleteRepublic(t, id)

SpecPartial == Init /\ [][NextPartial]_vars

\* Registrations served concurrently, and accounts deleted.
NextRegistration ==
    \/ Deliver
    \/ \E c \in Connections, f \in Subjects, r \in RoleInputs : BeginCreateUser(c, f, r)
    \/ \E request \in pending : FinishCreateUser(request)
    \/ \E t \in wallet, id \in Uids : DeleteUser(t, id)

SpecRegistration == Init /\ [][NextRegistration]_vars

\* Requests whose query can fail for a reason that is no AppError.
NextFailure ==
    \/ Deliver
    \/ \E f \in Subjects, r \in RoleInputs : CreateUser(f, r, 0, FALSE)
    \/ \E t \in wallet : CreateRepublic(t, TRUE, t.id, EachDrawInTurn)
    \/ \E t \in wallet, id \in Uids : DeleteUser(t, id)
    \/ \E t \in wallet, id \in Uids, up \in BOOLEAN : UserControllerGetUserById(t, id, up)

SpecFailure == Init /\ [][NextFailure]_vars

GuardedOps ==
    {"logout", "getAllUsers", "updateUser", "deleteUser", "createRepublic",
     "joinRepublicByCode", "updateRepublic", "deleteRepublic", "createTask",
     "getTaskById", "completeTask", "deleteTask", "updateTask",
     "createResident", "updateResident", "deleteResident"}

\* The row the last request was answered from.
Stored(uid) == accounts[uid]

\* C1 (as stated): a login that succeeds returns a token whose id is the
\* account's uid and whose role claim equals the role stored for the account.
C1_LoginRoleEqualsStoredRole ==
    (resp.op = "login" /\ resp.status = 200)
        => /\ resp.target \in DOMAIN accounts
           /\ resp.issued.id = Stored(resp.target).uid
           /\ resp.issued.role = Stored(resp.target).role

\* C1 (amended): every login with an accepted identity token whose subject
\* is the firebase_uid of an account succeeds with a token whose id is that
\* account's uid and whose role claim is the stored role, or "user" when the
\* account has no stored role.
C1_LoginRoleStoredOrDefault ==
    (resp.op = "login" /\ resp.idp = "ok"
        /\ \E u \in DOMAIN accounts : accounts[u].firebase_uid = resp.subject)
        => /\ resp.status = 200
           /\ resp.target \in DOMAIN accounts
           /\ Stored(resp.target).firebase_uid = resp.subject
           /\ resp.issued.id = Stored(resp.target).uid
           /\ resp.issued.sig = "good"
           /\ resp.issued.role = IF Stored(resp.target).role = NoRole THEN "user"
                                 ELSE Stored(resp.target).role

\* C1 witness: a login answered for an account that has no stored role.
C1_Witness ==
    /\ resp.op = "login" /\ resp.status = 200
    /\ resp.target \in DOMAIN accounts
    /\ Stored(resp.target).role = NoRole
    /\ resp.issued.role = "user"

\* C2 (as stated): a login during a provider outage is answered with a
\* failure other than the authentication failure given for an invalid token.
C2_UnavailableIsNotAuthFailure ==
    (resp.op = "login" /\ resp.idp = "unavailable")
        => /\ resp.status # 401
           /\ resp.message # "Falha na autenticacao do Firebase"

\* C3: a login whose identity token verifies but whose subject is the
\* firebase_uid of no account is answered 404 with no token and leaves the
\* accounts as they were; only createUser adds an account.
C3_LoginNeverProvisions ==
    [][/\ (/\ resp' # resp
           /\ resp'.op = "login"
           /\ resp'.idp = "ok"
           /\ ~\E u \in DOMAIN accounts : accounts[u].firebase_uid = resp'.subject)
          => (/\ resp'.status = 404
              /\ resp'.issued = NoToken
              /\ accounts' = accounts)
       /\ (DOMAIN accounts' \ DOMAIN accounts # {}) => resp'.op = "createUser"
      ]_vars

\* C3 witness: a verified identity with no account was just turned away.
C3_Witness ==
    /\ resp.op = "login" /\ resp.idp = "ok" /\ resp.status = 404
    /\ resp.issued = NoToken
    /\ DOMAIN accounts # {}
    /\ ~\E u \in DOMAIN accounts : accounts[u].firebase_uid = resp.subject

C5_ExpiredAnsweredExpired ==
    (resp.op \in GuardedOps /\ resp.token # NoToken /\ now >= resp.token.exp)
        => /\ resp.status = 401
           /\ resp.message = "Token expirado"
           /\ ~resp.handled

\* C5 (amended): protect answers every token whose expiry has passed with
\* 401 and does not run the handler; the failure is the expired-token one
\* when the signature is good and the invalid-token one when it is not.
C5_ExpiredRejectedByGuard ==
    (resp.op \in GuardedOps /\ resp.token # NoToken /\ now >= resp.token.exp)
        => /\ resp.status = 401
           /\ ~resp.handled
           /\ resp.issued = NoToken
           /\ resp.message = IF resp.token.sig = "good" THEN "Token expirado"
                             ELSE "Token invalido"

\* C5 witness: a well-signed token past its expiry was turned away by protect.
C5_Witness ==
    /\ resp.op \in GuardedOps
    /\ resp.token.sig = "good" /\ now >= resp.token.exp
    /\ resp.message = "Token expirado"

\* C6: a guarded request with a well-signed token in date whose account is
\* no longer stored is answered 401 by protect, runs no handler and changes
\* nothing.
C6_DeletedAccountRejected ==
    [][(/\ resp' # resp
        /\ resp'.op \in GuardedOps
        /\ resp'.token.sig = "good"
        /\ now < resp'.token.exp
        /\ resp'.token.id \notin DOMAIN accounts)
       => (/\ resp'.status = 401
           /\ resp'.message = "Usuario nao encontrado"
           /\ ~resp'.handled
           /\ <<accounts, republics, tasks>>' = <<accounts, republics, tasks>>)
      ]_vars

\* C6 witness: the account of a token handed out earlier was deleted, and a
\* request with that token, still in date, was turned away.
C6_Witness ==
    /\ resp.op \in GuardedOps
    /\ resp.token \in wallet /\ now < resp.token.exp
    /\ resp.token.id \notin DOMAIN accounts
    /\ resp.token.id <= seq.uid
    /\ resp.status = 401 /\ ~resp.handled

\* C7: the user a handler runs for is the row stored for the token's id when
\* the request is made (role and republic included), and restrictTo('admin')
\* lets the request through exactly when the stored role is admin.
C7_PrincipalFromStore ==
    [][(/\ resp' # resp
        /\ resp'.op \in GuardedOps
        /\ resp'.handled)
       => (/\ resp'.token.id \in DOMAIN accounts
           /\ resp'.user = accounts[resp'.token.id]
           /\ resp'.op = "getAllUsers"
                => (resp'.status = 200 <=> accounts[resp'.token.id].role = "admin"))
      ]_vars

\* C7 witness: a token whose role claim is not admin, of an account that has
\* since become admin and joined a republic, passed restrictTo('admin').
C7_Witness ==
    /\ resp.op = "getAllUsers" /\ resp.status = 200
    /\ resp.token.role # "admin"
    /\ resp.user.role = "admin"
    /\ resp.user.current_republic_id # 0

\* C8 (as stated): a token in date whose role claim is admin keeps passing
\* restrictTo('admin') whatever the role now stored for its account.
C8_StaleTokenGrantsOldRole ==
    (/\ resp.op = "getAllUsers"
     /\ resp.token.sig = "good" /\ now < resp.token.exp
     /\ resp.token.id \in DOMAIN accounts
     /\ resp.token.role = "admin")
        => resp.status = 200

\* C8 (amended): a token issued before a role change keeps passing protect
\* until its expiry, and what it is allowed is decided by the role now stored
\* for its account, not by its role claim.
C8_StaleTokenFollowsStoredRole ==
    (/\ resp.op = "getAllUsers"
     /\ resp.token.sig = "good" /\ now < resp.token.exp
     /\ resp.token.id \in DOMAIN accounts)
        => /\ resp.handled
           /\ resp.status = IF Stored(resp.token.id).role = "admin" THEN 200 ELSE 403

\* C8 witness: a token with the admin claim, of an account since made a
\* plain user, was refused by restrictTo('admin').
C8_Witness ==
    /\ resp.op = "getAllUsers" /\ resp.status = 403 /\ resp.handled
    /\ resp.token.role = "admin"
    /\ now < resp.token.exp
    /\ Stored(resp.token.id).role = "user"

\* C9: every token the server handed out verifies for as long as it is in
\* date, whatever was done since (logout, refresh, tokens issued anew by
\* updateUser, createRepublic, joinRepublicByCode): no guarded request with
\* such a token is answered with the invalid-token or expired-token failure.
C9_TokenVerifiesUntilExpiry ==
    /\ \A t \in wallet : now < t.exp => JwtVerify(t, FALSE) = "ok"
    /\ (resp.op \in GuardedOps /\ resp.token \in wallet /\ now < resp.token.exp)
          => resp.message \notin {"Token invalido", "Token expirado"}

\* C9 witness: a token was accepted while the clients hold a later token of
\* the same account.
C9_Witness ==
    /\ resp.op \in GuardedOps /\ resp.handled
    /\ resp.token \in wallet /\ now < resp.token.exp
    /\ \E t \in wallet : t.id = resp.token.id /\ t.iat > resp.token.iat

\* C10 (as stated): no handler behind protect answers 403 to a user whose
\* stored role is admin.
C10_AdminNeverForbidden ==
    (/\ resp.op \in GuardedOps
     /\ resp.handled
     /\ resp.user.role = "admin"
     /\ resp.op = "createTask" => resp.target \in DOMAIN republics)
        => resp.status # 403

\* The answers that report the request was carried out.
Succeeded == resp.status \in {200, 201, 204}

\* C11 (as stated): a user whose stored role is not admin is denied every
\* mutating request on a record scoped to a republic other than its current
\* one: creating, updating or completing a task, and creating, updating or
\* deleting a residency record, of another republic never succeeds.
C11_ForeignRecordDenied ==
    (/\ resp.handled
     /\ resp.user.role # "admin"
     /\ \/ /\ resp.op \in {"updateTask", "completeTask"}
           /\ resp.target \in DOMAIN tasks
           /\ tasks[resp.target].republic_id # resp.user.current_republic_id
        \/ /\ resp.op \in {"createTask", "createResident", "updateResident",
                           "deleteResident"}
           /\ resp.target \in DOMAIN republics
           /\ resp.target # resp.user.current_republic_id)
        => ~Succeeded

\* The resource a request names exists and is another's: a republic the
\* user does not own, a task of a republic that is not the user's current
\* one, the account of another user.
Foreign(op, target, user) ==
    \/ /\ op \in {"updateRepublic", "deleteRepublic"}
       /\ target \in DOMAIN republics
       /\ republics[target].owner_id # user.uid
    \/ /\ op \in {"updateTask", "deleteTask"}
       /\ target \in DOMAIN tasks
       /\ tasks[target].republic_id # user.current_republic_id
    \/ /\ op \in {"updateUser", "deleteUser"}
       /\ target \in DOMAIN accounts
       /\ target # user.uid

\* The resource a request names does not exist.
Missing(op, target) ==
    \/ op \in {"updateRepublic", "deleteRepublic"} /\ target \notin DOMAIN republics
    \/ op \in {"updateTask", "deleteTask"} /\ target \notin DOMAIN tasks
    \/ op \in {"updateUser", "deleteUser"} /\ target \notin DOMAIN accounts

C13_CreatorOwnsWithStoredRole ==
    (resp.op = "createRepublic" /\ resp.status = 201)
        => /\ resp.target \in DOMAIN republics
           /\ republics[resp.target].owner_id = resp.user.uid
           /\ Stored(resp.user.uid).current_republic_id = resp.target
           /\ Stored(resp.user.uid).is_admin
           /\ resp.issued.id = resp.user.uid
           /\ resp.issued.role = Stored(resp.user.uid).role

\* C13 (amended): a createRepublic that succeeds stores the republic with
\* the authenticated user as owner whatever owner the body names, leaves
\* that user in the new republic with is_admin set whatever its membership
\* was, and returns a fresh token whose role claim is the stored role, or
\* "user" when the account has no stored role.
C13_CreatorOwnsWithRoleOrDefault ==
    (resp.op = "createRepublic" /\ resp.status = 201)
        => /\ resp.target \in DOMAIN republics
           /\ republics[resp.target].owner_id = resp.user.uid
           /\ Stored(resp.user.uid).current_republic_id = resp.target
           /\ Stored(resp.user.uid).is_admin
           /\ resp.issued.id = resp.user.uid
           /\ resp.issued.sig = "good"
           /\ resp.issued.iat = now
           /\ resp.issued.role = IF Stored(resp.user.uid).role = NoRole THEN "user"
                                 ELSE Stored(resp.user.uid).role

\* C13 witness: a member of one republic founds another, naming the other
\* user as owner in the body.
C13_Witness ==
    /\ resp.op = "createRepublic" /\ resp.status = 201
    /\ resp.named # resp.user.uid
    /\ resp.named \in DOMAIN accounts
    /\ resp.user.current_republic_id \in DOMAIN republics
    /\ resp.user.current_republic_id # resp.target
    /\ ~resp.user.is_admin

\* The letters A to Z and the digits 0 to 9.
UpperAlphanumeric ==
    {"A", "B", "C", "D", "E", "F", "G", "H", "I", "J", "K", "L", "M", "N", "O",
     "P", "Q", "R", "S", "T", "U", "V", "W", "X", "Y", "Z",
     "0", "1", "2", "3", "4", "5", "6", "7", "8", "9"}

\* C14: every createRepublic that succeeds adds exactly one republic and
\* changes no other, and the code of the new republic has six characters,
\* each a letter A-Z or a digit 0-9.
C14_OneRepublicWithSixCharCode ==
    [][(Idle /\ resp'.op = "createRepublic" /\ resp'.status = 201)
        => /\ resp'.target \notin DOMAIN republics
           /\ DOMAIN republics' = DOMAIN republics \cup {resp'.target}
           /\ \A r \in DOMAIN republics : republics'[r] = republics[r]
           /\ Len(republics'[resp'.target].code) = 6
           /\ \A i \in 1..6 : republics'[resp'.target].code[i] \in UpperAlphanumeric]_vars

\* C14 witness: a second republic has been created beside the first.
C14_Witness ==
    /\ resp.op = "createRepublic" /\ resp.status = 201
    /\ Cardinality(DOMAIN republics) = 2
    /\ \E i \in 1..6 : republics[resp.target].code[i] \in {"0", "1", "2", "3", "4", "5", "6", "7", "8", "9"}
    /\ \E i \in 1..6 : republics[resp.target].code[i] \in {"A", "G", "O", "V", "Z"}

\* The republic that has the code of a draw.
UsedBy(draw) == GetRepublicByCode(CodeOf(draw))

\* C15: generateRepublicCode discards every draw whose code a republic has
\* and returns the first draw whose code no republic has; when the first
\* draw collides and the second does not, createRepublic succeeds after
\* exactly one retry, with the code of the second draw.
C15_RejectionSampling ==
    [][(Idle /\ resp'.op = "createRepublic" /\ resp'.stream # << >>)
        => /\ (UsedBy(resp'.stream[1]) # NoRepublic /\ UsedBy(resp'.stream[2]) = NoRepublic)
               => /\ resp'.status = 201
                  /\ resp'.retries = 1
                  /\ republics'[resp'.target].code = CodeOf(resp'.stream[2])
           /\ resp'.status = 201
               => /\ \A i \in 1..resp'.retries : UsedBy(resp'.stream[i]) # NoRepublic
                  /\ UsedBy(resp'.stream[resp'.retries + 1]) = NoRepublic
                  /\ republics'[resp'.target].code = CodeOf(resp'.stream[resp'.retries + 1])]_vars

\* C15 witness: a republic created with the second draw after the first
\* draw gave the code of the republic that already exists.
C15_Witness ==
    /\ resp.op = "createRepublic" /\ resp.status = 201
    /\ resp.retries = 1
    /\ republics[resp.target].code = CodeOf(resp.stream[2])
    /\ \E r \in DOMAIN republics \ {resp.target} : republics[r].code = CodeOf(resp.stream[1])

\* C16 (as stated): a createRepublic whose code was taken by another request
\* between the probe and the INSERT draws again, so no createRepublic is
\* answered with the conflict: every request that has its code ends 201.
C16_ConflictIsRetried ==
    (resp.op = "createRepublic" /\ resp.handled /\ resp.user.uid \in DOMAIN accounts)
        => resp.status = 201

\* C17: no two republics have the same code, whatever the order in which
\* the steps of createRepublic, updateRepublic and deleteRepublic requests
\* are served.
C17_CodesDistinct ==
    \A r1, r2 \in DOMAIN republics :
        r1 # r2 => republics[r1].code # republics[r2].code

\* C17 witness: two republics exist after a request was refused the code of
\* the other, at the INSERT or at the UPDATE.
C17_Witness ==
    /\ Cardinality(DOMAIN republics) = 2
    /\ resp.op \in {"createRepublic", "updateRepublic"}
    /\ resp.status \in {409, 500}

\* The account is in a republic that it owns.
OwnsCurrent(u) ==
    /\ accounts[u].current_republic_id \in DOMAIN republics
    /\ republics[accounts[u].current_republic_id].owner_id = u

\* C18 (as stated): in every state, is_admin of an account is true exactly
\* when the account is in a republic whose owner_id is the account's uid.
C18_OwnerFlagIffOwnsCurrent ==
    \A u \in DOMAIN accounts : accounts[u].is_admin <=> OwnsCurrent(u)

\* C19: every account is in at most one republic, one that exists: its
\* single current_republic_id is empty or names a republic; a createRepublic
\* or joinRepublicByCode that succeeds puts the user in the republic of the
\* request and in no other, whatever republic it was in, and changes the
\* republic of no other account.
C19_OneRepublicAtATime ==
    [][/\ \A u \in DOMAIN accounts' :
             accounts'[u].current_republic_id \in DOMAIN republics' \cup {0}
       /\ (Idle /\ resp'.op \in {"createRepublic", "joinRepublicByCode"}
              /\ resp'.status \in {200, 201})
           => /\ resp'.target \in DOMAIN republics'
              /\ accounts'[resp'.user.uid].current_republic_id = resp'.target
              /\ accounts[resp'.user.uid].current_republic_id # resp'.target
              /\ \A u \in DOMAIN accounts \ {resp'.user.uid} :
                     accounts'[u].current_republic_id = accounts[u].current_republic_id]_vars

\* C19 witness: a user who was in one republic has joined another and is in
\* that one only.
C19_Witness ==
    /\ resp.op = "joinRepublicByCode" /\ resp.status = 200
    /\ resp.user.current_republic_id \in DOMAIN republics
    /\ resp.user.current_republic_id # resp.target
    /\ Stored(resp.user.uid).current_republic_id = resp.target

\* C20 (as stated): a joinRepublicByCode that succeeds, for a republic of
\* another owner, leaves the user in the republic of the code with is_admin
\* false, also when the user owned the republic it was in, and returns a
\* fresh token.
C20_JoinerIsNotOwner ==
    (/\ resp.op = "joinRepublicByCode" /\ resp.status = 200
     /\ resp.target \in DOMAIN republics
     /\ republics[resp.target].owner_id # resp.user.uid)
        => /\ Stored(resp.user.uid).current_republic_id = resp.target
           /\ ~Stored(resp.user.uid).is_admin
           /\ resp.issued.id = resp.user.uid
           /\ resp.issued.sig = "good"

\* C21: a joinRepublicByCode with the code of the republic the user is
\* already in is refused as "already a member", issues no token and leaves
\* every account and republic as it was; the state being the same, a
\* repetition of the request is answered the same way.
C21_JoinOwnRepublicRefused ==
    [][(/\ Idle
        /\ resp'.op = "joinRepublicByCode" /\ resp'.handled
        /\ resp'.target \in DOMAIN republics
        /\ accounts[resp'.user.uid].current_republic_id = resp'.target)
        => /\ resp'.status = 400
           /\ resp'.message = "You are already a member of this republic"
           /\ resp'.issued = NoToken
           /\ UNCHANGED <<accounts, republics, tasks, residents, seq>>]_vars

\* C21 witness: a user who joined the republic of another user asks to
\* join it again and is refused.
C21_Witness ==
    /\ resp.op = "joinRepublicByCode" /\ resp.status = 400
    /\ resp.target \in DOMAIN republics
    /\ Stored(resp.user.uid).current_republic_id = resp.target
    /\ republics[resp.target].owner_id # resp.user.uid

\* C22: a deleteRepublic asked by a user who is neither the owner of the
\* republic nor an admin is answered 403, and the republic and every
\* account, its members included, are as they were.
C22_DeniedDeleteChangesNothing ==
    [][(/\ Idle
        /\ resp'.op = "deleteRepublic" /\ resp'.handled
        /\ resp'.target \in DOMAIN republics
        /\ resp'.user.role # "admin"
        /\ resp'.user.uid # republics[resp'.target].owner_id)
        => /\ resp'.status = 403
           /\ UNCHANGED <<accounts, republics, tasks>>]_vars

\* C22 witness: a member who is not the owner is refused the delete of the
\* republic it is in.
C22_Witness ==
    /\ resp.op = "deleteRepublic" /\ resp.status = 403
    /\ resp.target \in DOMAIN republics
    /\ Stored(resp.user.uid).current_republic_id = resp.target
    /\ republics[resp.target].owner_id # resp.user.uid

C25_UpdateKeepsRoleAndRepublic ==
    [][(Idle /\ resp'.op = "updateUser")
        => \A u \in DOMAIN accounts \cap DOMAIN accounts' :
              /\ accounts'[u].role = accounts[u].role
              /\ accounts'[u].current_republic_id = accounts[u].current_republic_id]_vars

\* C26 (as stated): an updateUser that succeeds returns a fresh token exactly
\* when the user updated its own account or the body names role or
\* current_republic_id, and the role claim of that token equals the role
\* stored for the updated account.
C26_UpdateTokenHasStoredRole ==
    (resp.op = "updateUser" /\ resp.status = 200)
        => /\ resp.issued # NoToken
               <=> \/ resp.target = resp.user.uid
                   \/ resp.body \in {"role", "current_republic_id"}
           /\ resp.issued # NoToken
               => /\ resp.issued.id = resp.target
                  /\ resp.issued.role = Stored(resp.target).role

\* C26 (amended): as stated, with the role claim being the stored role of
\* the updated account, or "user" when the account has no stored role.
C26_UpdateTokenHasRoleOrDefault ==
    (resp.op = "updateUser" /\ resp.status = 200)
        => /\ resp.issued # NoToken
               <=> \/ resp.target = resp.user.uid
                   \/ resp.body \in {"role", "current_republic_id"}
           /\ resp.issued # NoToken
               => /\ resp.issued.id = resp.target
                  /\ resp.issued.sig = "good"
                  /\ resp.issued.iat = now
                  /\ resp.issued.role = IF Stored(resp.target).role = NoRole THEN "user"
                                        ELSE Stored(resp.target).role

\* C26 witness: an admin changed the role of another account and the answer
\* carries a token with the new role.
C26_Witness ==
    /\ resp.op = "updateUser" /\ resp.status = 200
    /\ resp.target # resp.user.uid
    /\ resp.body = "role"
    /\ resp.issued.role = Stored(resp.target).role
    /\ resp.issued.role # resp.user.role

\* C26 witness of the other case: an admin changed the name of another
\* account and the answer carries no token.
C26_WitnessNoToken ==
    /\ resp.op = "updateUser" /\ resp.status = 200
    /\ resp.target # resp.user.uid
    /\ resp.body = "name"
    /\ resp.issued = NoToken

C28_MissingTargetIsNotFound ==
    (/\ resp.op \in {"updateUser", "updateRepublic"}
     /\ resp.handled
     /\ resp.user.role = "admin"
     /\ resp.body \notin {"none"} \cup RestrictedFields
     /\ Missing(resp.op, resp.target))
        => resp.status = 404

\* C29: no two accounts have the same firebase_uid, however the probes and
\* INSERTs of concurrent registrations are interleaved; a registration whose
\* firebase_uid is that of an account is answered 409 and changes no account.
C29_FirebaseUidUnique ==
    [][/\ \A u1, u2 \in DOMAIN accounts' :
              u1 # u2 => accounts'[u1].firebase_uid # accounts'[u2].firebase_uid
       /\ (/\ Idle
           /\ resp'.op = "createUser"
           /\ \E u \in DOMAIN accounts : accounts[u].firebase_uid = resp'.subject)
              => /\ resp'.status = 409
                 /\ resp'.issued = NoToken
                 /\ accounts' = accounts
                 /\ seq' = seq]_vars

\* C29 witness: of two registrations for one firebase_uid that both passed
\* the probe, the second was refused at its INSERT; one account has the
\* firebase_uid.
C29_Witness ==
    /\ resp.op = "createUser"
    /\ resp.status = 409
    /\ resp.message = "Email or Firebase UID already exists"
    /\ Cardinality({u \in DOMAIN accounts : accounts[u].firebase_uid = resp.subject}) = 1

\* C30: a createRepublic whose INSERT is done and whose UPDATE of the owner's
\* row fails is answered 500 without a token; the republic it inserted stays
\* in the table, owned by the caller, and no account is changed: the owner is
\* not in the republic.
C30_InsertIsNotRolledBack ==
    [][(/\ Idle
        /\ resp'.op = "createRepublic"
        /\ resp'.status = 500)
           => /\ resp'.message = "Failed to create republic"
              /\ resp'.issued = NoToken
              /\ resp'.target \notin DOMAIN republics
              /\ resp'.target \in DOMAIN republics'
              /\ republics'[resp'.target].owner_id = resp'.user.uid
              /\ \A r \in DOMAIN republics : republics'[r] = republics[r]
              /\ accounts' = accounts
              /\ accounts'[resp'.user.uid].current_republic_id # resp'.target]_vars

\* C30 witness: createRepublic was answered 500, the republic exists and its
\* owner is in no republic and has no owner flag.
C30_Witness ==
    /\ resp.op = "createRepublic" /\ resp.status = 500
    /\ resp.target \in DOMAIN republics
    /\ republics[resp.target].owner_id = resp.user.uid
    /\ Stored(resp.user.uid).current_republic_id = 0
    /\ ~Stored(resp.user.uid).is_admin

\* The request of an owner is in the loop of generateRepublicCode.
Looping(u) == \E request \in pending : request.ownerId = u /\ ~request.isCodeUnique

\* No republic has the code of the draw.
Free(d) == GetRepublicByCode(CodeOf(d)) = NoRepublic

\* C31: under fair draws no request stays in the loop of generateRepublicCode
\* for ever while some code stays unused by every republic; and while every
\* code is used by a republic a request in the loop stays in it: no pass
\* returns a code, and its createRepublic is not answered.
C31_LoopEndsIffCodeFree ==
    /\ \A u \in Uids, d \in Draws : []<>(~Looping(u) \/ ~Free(d))
    /\ [][\A u \in Uids :
            (Looping(u) /\ \A d \in Draws : ~Free(d))
                => /\ Looping(u)'
                   /\ ~(resp' # resp /\ resp'.op = "createRepublic"
                        /\ resp'.user.uid = u)]_vars

\* C31 witness: the pass of a request gave the code of a republic, the
\* request is still in the loop, and another code is unused.
C31_Witness ==
    \E request \in pending :
        /\ ~request.isCodeUnique
        /\ request.code # << >>
        /\ GetRepublicByCode(request.code) # NoRepublic
        /\ \E d \in Draws : Free(d)

\* C31 witness of the other case: a request is in the loop after a pass while
\* every code is used by a republic.
C31_WitnessExhausted ==
    \E request \in pending :
        /\ ~request.isCodeUnique
        /\ request.code # << >>
        /\ \A d \in Draws : ~Free(d)

\* C32 (as stated): while no account has the role admin, no request gives an
\* account that role: starting with no admin, no account ever has the role
\* admin.
C32_NoAdminFromNonAdmins ==
    [][(\A u \in DOMAIN accounts : accounts[u].role # "admin")
        => (\A u \in DOMAIN accounts' : accounts'[u].role # "admin")]_vars

\* C33: in every state the current_republic_id of an account is null or the
\* id of a republic of the table, however the queries of concurrent joins
\* and deletes are interleaved; a join whose republic was deleted after the
\* join found it is refused and gives no token.
C33_MembershipRefersToRepublic ==
    /\ \A u \in DOMAIN accounts :
          accounts[u].current_republic_id # 0
              => accounts[u].current_republic_id \in DOMAIN republics
    /\ (resp.op = "joinRepublicByCode" /\ resp.handled
            /\ resp.target # 0 /\ resp.target \notin DOMAIN republics)
          => /\ resp.status = 400
             /\ resp.issued = NoToken

\* C33 witness: a join found its republic, the republic was deleted, and the
\* UPDATE of the join was refused.
C33_Witness ==
    /\ resp.op = "joinRepublicByCode"
    /\ resp.status = 400
    /\ resp.message = "Invalid republic_id"
    /\ resp.target \notin DOMAIN republics
    /\ Stored(resp.user.uid).current_republic_id # resp.target

\* C33 witness of the other interleaving: the UPDATE of a join ran between
\* the two queries of a delete, and the DELETE set the membership to null;
\* the account keeps the is_admin it had from the republic it owns.
C33_WitnessSetNull ==
    /\ resp.op = "deleteRepublic"
    /\ resp.status = 204
    /\ \E u \in DOMAIN accounts :
          /\ accounts[u].current_republic_id = 0
          /\ accounts[u].is_admin

\* C34 (as stated): a token in the answer to createRepublic,
\* joinRepublicByCode or updateUser has the uid of the user that protect
\* found for the request.
C34_TokenNamesCaller ==
    (/\ resp.op \in {"createRepublic", "joinRepublicByCode", "updateUser"}
     /\ resp.handled
     /\ resp.issued # NoToken)
        => resp.issued.id = resp.user.uid

C35_WitnessDeleted ==
    /\ resp.op = "refreshToken" /\ resp.status = 404
    /\ resp.token.sig = "good"
    /\ resp.token.id \notin DOMAIN accounts
    /\ resp.issued = NoToken

\* C36: a deleteRepublic asked by the owner_id of the republic while the
\* owner's current_republic_id is not that republic is carried out (204, the
\* republic removed), and the owner's row, current_republic_id and is_admin
\* included, is as before.
C36_OwnerDeletesWhileElsewhere ==
    [][(/\ Idle
        /\ resp'.op = "deleteRepublic"
        /\ resp'.handled
        /\ resp'.target \in DOMAIN republics
        /\ republics[resp'.target].owner_id = resp'.user.uid
        /\ accounts[resp'.user.uid].current_republic_id # resp'.target)
           => /\ resp'.status = 204
              /\ resp'.target \notin DOMAIN republics'
              /\ accounts'[resp'.user.uid] = accounts[resp'.user.uid]]_vars

\* C36 witness: a user that is not admin deleted a republic and is still in
\* another republic, with the owner flag set.
C36_Witness ==
    /\ resp.op = "deleteRepublic" /\ resp.status = 204
    /\ resp.user.role # "admin"
    /\ Stored(resp.user.uid).current_republic_id \in DOMAIN republics
    /\ Stored(resp.user.uid).is_admin

\* C37: whatever the status of an account, a login with a valid Firebase
\* token of its firebase_uid is answered 200 with a token for it, a
\* refreshToken with a well-signed token of it is answered 200 with a token
\* for it, and protect passes a request with a valid token of it, with the
\* account as req.user: no answer of the three depends on the status.
C37_StatusNotConsulted ==
    /\ (resp.op = "login" /\ resp.idp = "ok" /\ FirebaseUidTaken(resp.subject))
          => /\ resp.status = 200
             /\ resp.issued.id = GetUserByFirebaseUID(resp.subject).uid
             /\ resp.issued.role = RoleOrDefault(GetUserByFirebaseUID(resp.subject).role)
    /\ (resp.op = "refreshToken" /\ resp.token.sig = "good"
            /\ resp.token.id \in DOMAIN accounts)
          => /\ resp.status = 200
             /\ resp.issued.id = resp.token.id
             /\ resp.issued.role = RoleOrDefault(Stored(resp.token.id).role)
    /\ (resp.op = "getUserById" /\ resp.token.sig = "good" /\ now < resp.token.exp
            /\ resp.token.id \in DOMAIN accounts)
          => /\ resp.handled
             /\ resp.user = Stored(resp.token.id)
             /\ resp.status \in {200, 404}

\* C37 witness: a banned account logged in and was given a token.
C37_Witness ==
    /\ resp.op = "login" /\ resp.status = 200
    /\ resp.user.status = "banned"
    /\ Stored(resp.issued.id).status = "banned"

\* C37 witness of the guard: protect passed a request of an inactive account.
C37_WitnessGuard ==
    /\ resp.op = "getUserById" /\ resp.handled /\ resp.status = 200
    /\ resp.user.status = "inactive"

\* C37 witness of refreshToken: a banned account was given a new token.
C37_WitnessRefresh ==
    /\ resp.op = "refreshToken" /\ resp.status = 200
    /\ Stored(resp.issued.id).status = "banned"

====
